---- MODULE Spec2Model ----
(***************************************************************************)
(* A model of the slotted timing wheel of timewheel.go: the wheel (slots,  *)
(* registry `timer`, cursor `currentPos`), the coordinator goroutine(s)    *)
(* launched by Start, the ticker, and the callers that hand commands to    *)
(* the coordinator over unbuffered channels.                               *)
(*                                                                         *)
(* Durations are counted in units of 1/UnitsPerSecond second, so that      *)
(* Duration.Seconds() followed by int() is a real truncation.              *)
(***************************************************************************)
EXTENDS Integers, Sequences, FiniteSets, TLC

VARIABLES
    load,         \* the workload the callers draw their calls from (fixed)
    interval,     \* tw.interval, fixed by New
    slotNum,      \* tw.slotNum, fixed by New
    slots,        \* tw.slots: slot index -> list of tasks
    timer,        \* tw.timer: key -> slot index (the registry)
    currentPos,   \* tw.currentPos
    ticker,       \* tw.ticker: "nil", "on" (ticking) or "off" (stopped)
    pc,           \* per coordinator goroutine: "none", "select", "scan", "done"
    scanL,        \* per goroutine: slot index of the list tickHandler scans
    item,         \* per goroutine: index of the scan's current element, 0 = nil
    call,         \* per caller: the command it is blocked sending, or Idle
    calls,        \* number of API calls made so far (Start apart)
    pending,      \* callers blocked on a send, in the order the calls were issued
    panicked,     \* the process has died of a run-time panic
    lastEvent     \* what the last step did (history, read by the properties)

vars == <<load, interval, slotNum, slots, timer, currentPos, ticker, pc,
          scanL, item, calls, call, pending, panicked, lastEvent>>

wheel == <<slots, timer, currentPos>>

-----------------------------------------------------------------------------
(* Bounds and input domains *)

UnitsPerSecond == 2
Forever == -1

MaxSlotNum == 2
NumCallers == 2
MaxCalls == 2
MaxCallsDup == 3
MaxStarts == 2
MaxRuns == 2
MaxAge == 6

Keys == {"k1", "k2"}
Nil == "nil"

\* Workload "full": one Start, MaxCalls calls drawn from every combination of
\* the values below, on every wheel New accepts within the bounds.
\* Workload "dup": one Start, MaxCallsDup calls on one key.
\* Workload "starts": up to MaxStarts calls of Start, few values.
\* Workload "fair": one Start, MaxCalls calls, few values, two keys; it is the
\* workload of the specification that states the coordinator's progress.
WheelIntervals == {1, 2, 3}
\* The argument lists of New: every valid combination within the bounds, and
\* for workload "full" an invalid list for each side of New's test.
NewInputs ==
    IF load = "full"
    THEN [interval : WheelIntervals, slotNum : 1..MaxSlotNum]
         \cup {[interval |-> 0, slotNum |-> 1],
               [interval |-> -2, slotNum |-> 1],
               [interval |-> 2, slotNum |-> 0],
               [interval |-> 2, slotNum |-> -1]}
    ELSE {[interval |-> UnitsPerSecond, slotNum |-> MaxSlotNum]}
Delays ==
    IF load = "full" THEN {1, 2, 4, 6}
    ELSE IF load = "fair" THEN {1, 4}
    ELSE {1, 2}
UpdateIntervals == IF load = "full" THEN {-2, 4} ELSE {4}
Runs ==
    IF load = "full" THEN {Forever} \cup 0..MaxRuns
    ELSE IF load = "dup" THEN {Forever, -2, 0, 1}
    ELSE IF load = "fair" THEN {Forever}
    ELSE {Forever, 1}
AddKeys == IF load \in {"full", "fair"} THEN Keys ELSE {"k1"}
CallLimit == IF load = "dup" THEN MaxCallsDup ELSE MaxCalls
StartLimit == IF load = "starts" THEN MaxStarts ELSE 1

\* The argument lists the callers try: every valid combination, and one
\* invalid list for each validation test of the API.
AddInputs ==
    [d : Delays, times : Runs, key : AddKeys, data : {"a"}, job : {"job"}]
    \cup {[d |-> 0, times |-> 1, key |-> "k1", data |-> "a", job |-> "job"],
          [d |-> -2, times |-> 1, key |-> "k1", data |-> "a", job |-> "job"],
          [d |-> 2, times |-> 1, key |-> Nil, data |-> "a", job |-> "job"],
          [d |-> 2, times |-> 1, key |-> "k1", data |-> "a", job |-> Nil]}
UpdateInputs ==
    [key : AddKeys, d : UpdateIntervals, data : {"b"}]
    \cup {[key |-> Nil, d |-> 4, data |-> "b"]}
RemoveInputs == AddKeys \cup {Nil}

Callers == 1..NumCallers
Gs == 1..MaxStarts
Idle == [op |-> "idle"]

-----------------------------------------------------------------------------
(* Go arithmetic *)

\* Go's integer division truncates toward zero (b > 0 here).
GoDiv(a, b) == IF a >= 0 THEN a \div b ELSE -((-a) \div b)

\* Go's remainder has the sign of the dividend.
GoMod(a, b) == a - b * GoDiv(a, b)

\* int(d.Seconds())
Seconds(d) == GoDiv(d, UnitsPerSecond)

-----------------------------------------------------------------------------
(* container/list and map helpers *)

RemoveAt(s, i) == SubSeq(s, 1, i - 1) \o SubSeq(s, i + 1, Len(s))

Put(m, k, v) == [x \in (DOMAIN m) \cup {k} |-> IF x = k THEN v ELSE m[x]]

Delete(m, k) == [x \in (DOMAIN m) \ {k} |-> m[x]]

\* e.Next() taken before l.Remove(e): the index the successor has afterwards.
NextAfterRemove(l, i) == IF i < Len(l) THEN i ELSE 0

\* e.Next() of an element left in place.
NextInPlace(l, i) == IF i < Len(l) THEN i + 1 ELSE 0

\* index of the first task of the list with this key, 0 if none
FirstWithKey(l, key) ==
    IF \E i \in 1..Len(l) : l[i].key = key
    THEN CHOOSE i \in 1..Len(l) :
            /\ l[i].key = key
            /\ \A j \in 1..(i - 1) : l[j].key # key
    ELSE 0

-----------------------------------------------------------------------------
(* getPositionAndCircle and addTask *)

\* intervalSeconds is 0 when the wheel's interval is under one second: the
\* division panics.  A negative pos panics at tw.slots[pos].
getPositionAndCircle(d, cur) ==
    LET delaySeconds == Seconds(d)
        intervalSeconds == Seconds(interval)
    IN  IF intervalSeconds = 0
        THEN [ok |-> FALSE, pos |-> 0, circle |-> 0]
        ELSE LET steps == GoDiv(delaySeconds, intervalSeconds)
                 pos == GoMod(cur + steps, slotNum)
             IN  [ok |-> pos >= 0, pos |-> pos, circle |-> GoDiv(steps, slotNum)]

\* A faulty addTask, which stores the task as the slot's only element instead
\* of pushing it at the back.
addTaskOverwrite(t, sl, tm, cur, fresh) ==
    LET p == getPositionAndCircle(t.interval, cur)
        nt == [t EXCEPT !.circle = p.circle, !.d0 = t.interval,
                        !.fresh = fresh, !.passes = 0, !.age = 0]
    IN  IF ~p.ok
        THEN [ok |-> FALSE, slots |-> sl, timer |-> tm, pos |-> p.pos, task |-> nt]
        ELSE [ok |-> TRUE,
              slots |-> [sl EXCEPT ![p.pos] = <<nt>>],
              timer |-> Put(tm, t.key, p.pos),
              pos |-> p.pos, task |-> nt]

\* addTask on a wheel (sl, tm) with cursor cur; `fresh` tells a command's add
\* from a re-arm.  The fields d0, fresh, passes and age are history: the
\* interval the placement was computed from, whether a command placed the
\* task, and the visits and the ticks since the placement.
addTask(t, sl, tm, cur, fresh) ==
    LET p == getPositionAndCircle(t.interval, cur)
        nt == [t EXCEPT !.circle = p.circle, !.d0 = t.interval,
                        !.fresh = fresh, !.passes = 0, !.age = 0]
    IN  IF ~p.ok
        THEN [ok |-> FALSE, slots |-> sl, timer |-> tm, pos |-> p.pos, task |-> nt]
        ELSE [ok |-> TRUE,
              slots |-> [sl EXCEPT ![p.pos] = Append(@, nt)],
              timer |-> Put(tm, t.key, p.pos),
              pos |-> p.pos, task |-> nt]

-----------------------------------------------------------------------------
(* Construction *)

\* the program holds no wheel: New has not been called, or has returned nil
NoWheel ==
    /\ interval = 0
    /\ slotNum = 0
    /\ slots = <<>>
    /\ timer = <<>>
    /\ currentPos = 0
    /\ ticker = "nil"

\* no goroutine started, no caller inside a call
Idling ==
    /\ pc = [g \in Gs |-> "none"]
    /\ scanL = [g \in Gs |-> 0]
    /\ item = [g \in Gs |-> 0]
    /\ call = [c \in Callers |-> Idle]
    /\ calls = 0
    /\ pending = <<>>
    /\ panicked = FALSE
    /\ lastEvent = [type |-> "none"]

Init ==
    /\ load = "full"
    /\ NoWheel
    /\ Idling

InitDup ==
    /\ load = "dup"
    /\ NoWheel
    /\ Idling

InitStarts ==
    /\ load = "starts"
    /\ NoWheel
    /\ Idling

InitFair ==
    /\ load = "fair"
    /\ NoWheel
    /\ Idling

\* the program holds a wheel
Built == slotNum > 0

\* A faulty New, which builds a wheel from any arguments.
NewUnchecked(i, n) ==
    /\ lastEvent.type = "none"
    /\ interval' = i
    /\ slotNum' = n
    /\ slots' = [x \in 0..(n - 1) |-> <<>>]
    /\ timer' = <<>>
    /\ currentPos' = 0
    /\ lastEvent' = [type |-> "new", ok |-> TRUE]
    /\ UNCHANGED <<load, ticker, pc, scanL, item, calls, call, pending, panicked>>

\* New(i, n), the program's first step: nil if an argument is not positive,
\* else a wheel of n empty lists, an empty registry and the cursor at 0.
New(i, n) ==
    /\ lastEvent.type = "none"
    /\ IF i <= 0 \/ n <= 0
       THEN /\ lastEvent' = [type |-> "new", ok |-> FALSE]
            /\ UNCHANGED <<interval, slotNum, wheel>>
       ELSE /\ interval' = i
            /\ slotNum' = n
            /\ slots' = [x \in 0..(n - 1) |-> <<>>]
            /\ timer' = <<>>
            /\ currentPos' = 0
            /\ lastEvent' = [type |-> "new", ok |-> TRUE]
    /\ UNCHANGED <<load, ticker, pc, scanL, item, calls, call, pending, panicked>>

-----------------------------------------------------------------------------
(* The public API, run by the callers *)

\* A faulty handoff, which lets the caller go on before its command is taken.
BlockedNever(c) == FALSE

\* A send on an unbuffered channel returns only when a receiver has taken the
\* value: until then the caller is inside the call and issues nothing else.
Blocked(c) == call[c] # Idle

\* the coordinator goroutines that are in their loop
Running == {g \in Gs : pc[g] \in {"select", "scan"}}

\* A faulty handoff, which returns without leaving the command to be taken.
SendNoWait(c, m) ==
    /\ calls < CallLimit
    /\ calls' = calls + 1
    /\ lastEvent' = [type |-> "send", op |-> m.op]
    /\ UNCHANGED <<load, interval, slotNum, wheel, ticker, pc, scanL, item,
                   call, pending, panicked>>

\* The caller blocks in `ch <- m`.  The field norun is history: no
\* coordinator loop was running when the call was issued.
Send(c, m) ==
    /\ calls < CallLimit
    /\ calls' = calls + 1
    /\ call' = [call EXCEPT ![c] = m @@ [norun |-> Running = {}]]
    /\ pending' = Append(pending, c)
    /\ lastEvent' = [type |-> "send", op |-> m.op]
    /\ UNCHANGED <<load, interval, slotNum, wheel, ticker, pc, scanL, item,
                   panicked>>

\* A call that fails validation returns at once.
Reject(c, op) ==
    /\ calls < CallLimit
    /\ calls' = calls + 1
    /\ lastEvent' = [type |-> "reject", op |-> op]
    /\ UNCHANGED <<load, interval, slotNum, wheel, ticker, pc, scanL, item,
                   call, pending, panicked>>

Start(c) ==
    /\ Built
    /\ ~panicked
    /\ ~Blocked(c)
    /\ \E g \in 1..StartLimit :
        /\ pc[g] = "none"
        /\ \A h \in Gs : h < g => pc[h] # "none"
        /\ pc' = [pc EXCEPT ![g] = "select"]
        /\ lastEvent' = [type |-> "start"]
    /\ ticker' = "on"
    /\ UNCHANGED <<load, interval, slotNum, wheel, scanL, item, calls, call, pending, panicked>>

Stop(c) ==
    /\ Built
    /\ ~panicked
    /\ ~Blocked(c)
    /\ Send(c, [op |-> "stop"])

NewTask(d, times, key, data, job) ==
    [interval |-> d, times |-> times, circle |-> 0, key |-> key, job |-> job,
     taskData |-> data,
     d0 |-> d, fresh |-> TRUE, passes |-> 0, runs0 |-> times, fired |-> 0,
     age |-> 0]

\* A faulty AddTask, which hands every call to the coordinator.
AddTaskUnchecked(c, d, times, key, data, job) ==
    /\ Built
    /\ ~panicked
    /\ ~Blocked(c)
    /\ Send(c, [op |-> "add", task |-> NewTask(d, times, key, data, job)])

AddTask(c, d, times, key, data, job) ==
    /\ Built
    /\ ~panicked
    /\ ~Blocked(c)
    /\ IF d <= 0 \/ key = Nil \/ job = Nil
       THEN Reject(c, "add")
       ELSE Send(c, [op |-> "add", task |-> NewTask(d, times, key, data, job)])

UpdateTask(c, key, d, data) ==
    /\ Built
    /\ ~panicked
    /\ ~Blocked(c)
    /\ IF key = Nil
       THEN Reject(c, "update")
       ELSE Send(c, [op |-> "update", key |-> key, interval |-> d,
                     taskData |-> data])

RemoveTask(c, key) ==
    /\ Built
    /\ ~panicked
    /\ ~Blocked(c)
    /\ IF key = Nil
       THEN Reject(c, "remove")
       ELSE Send(c, [op |-> "remove", key |-> key])

-----------------------------------------------------------------------------
(* The coordinator: start()'s select loop and the handlers it calls *)

\* The receive that completes caller c's send.
Taken(c) ==
    /\ call' = [call EXCEPT ![c] = Idle]
    /\ pending' = SelectSeq(pending, LAMBDA x : x # c)
    /\ UNCHANGED calls

\* What every receive event records: whether the command taken is the one
\* that had been waiting longest.
RecvInfo(g, c) == [fifo |-> Head(pending) = c]

\* tickHandler's last statement
NextPos(cur) == IF cur = slotNum - 1 THEN 0 ELSE cur + 1

\* every held task has seen one more tick begin (history)
Aged(sl) ==
    [p \in DOMAIN sl |->
        [i \in 1..Len(sl[p]) |->
            [sl[p][i] EXCEPT !.age = IF @ < MaxAge THEN @ + 1 ELSE @]]]

\* case <-tw.ticker.C (a tick arrives while the ticker runs): tickHandler
\* takes the cursor's list and starts the scan; an empty list ends the
\* handler at once.
RecvTick(g) ==
    /\ ~panicked
    /\ pc[g] = "select"
    /\ ticker = "on"
    /\ IF Len(slots[currentPos]) = 0
       THEN /\ currentPos' = NextPos(currentPos)
            /\ UNCHANGED <<pc, scanL, item>>
       ELSE /\ pc' = [pc EXCEPT ![g] = "scan"]
            /\ scanL' = [scanL EXCEPT ![g] = currentPos]
            /\ item' = [item EXCEPT ![g] = 1]
            /\ UNCHANGED currentPos
    /\ slots' = Aged(slots)
    /\ lastEvent' = [type |-> "tick", cursor |-> currentPos]
    /\ UNCHANGED <<load, interval, slotNum, timer, ticker, calls, call, pending, panicked>>

\* if task.times > 0 || task.times == -1
IsPeriodic(t) == t.times > 0 \/ t.times = Forever

\* A faulty re-arm, which forgets to count the run down.
RunCountedKept(t) == t

\* if task.times > 0 { task.times-- }
RunCounted(t) == [t EXCEPT !.times = IF @ > 0 THEN @ - 1 ELSE @]

\* One iteration of scanAddRunTask's loop on element i of list li.
\* Result: the wheel afterwards, the loop's next element, whether addTask
\* panicked, and the event.
ScanItem(g, li, i) ==
    LET l == slots[li]
        t == l[i]
        removed == [slots EXCEPT ![li] = RemoveAt(l, i)]
        erased == Delete(timer, t.key)
    IN  IF t.times = 0
        THEN [ok |-> TRUE, slots |-> removed, timer |-> erased,
              next |-> NextAfterRemove(l, i),
              ev |-> [type |-> "evict", task |-> t,
                      cursor |-> currentPos, slot |-> li]]
        ELSE IF t.circle > 0
        THEN [ok |-> TRUE,
              slots |-> [slots EXCEPT ![li][i].circle = @ - 1,
                                      ![li][i].passes = @ + 1],
              timer |-> timer,
              next |-> NextInPlace(l, i),
              ev |-> [type |-> "wait", task |-> t,
                      cursor |-> currentPos, slot |-> li]]
        ELSE LET ev == [type |-> "dispatch", task |-> t,
                        cursor |-> currentPos, slot |-> li]
                 ran == [t EXCEPT !.fired = IF t.times = Forever THEN @ ELSE @ + 1]
             IN  IF IsPeriodic(t)
                 THEN LET again == RunCounted(ran)
                          r == addTask(again, removed, erased, currentPos, FALSE)
                      IN  [ok |-> r.ok, slots |-> r.slots, timer |-> r.timer,
                           next |-> NextAfterRemove(l, i),
                           ev |-> ev @@ [rearmed |-> r.ok, pos |-> r.pos,
                                         placed |-> r.task]]
                 ELSE [ok |-> TRUE, slots |-> removed, timer |-> erased,
                       next |-> NextAfterRemove(l, i),
                       ev |-> ev @@ [rearmed |-> FALSE, pos |-> -1, placed |-> ran]]

\* History: the parity of the number of iterations the scans have made since
\* the last other event, so that an iteration that leaves the list as it
\* found it is still a step.
Turn == IF lastEvent.type \in {"evict", "wait", "dispatch"}
        THEN 1 - lastEvent.turn
        ELSE 0

\* The loop of scanAddRunTask, one element per step; when the loop ends the
\* handler moves the cursor and the goroutine is back in select.
ScanStep(g) ==
    /\ ~panicked
    /\ pc[g] = "scan"
    /\ IF item[g] > Len(slots[scanL[g]])
       THEN \* only when another goroutine emptied the list under the scan
            /\ currentPos' = NextPos(currentPos)
            /\ pc' = [pc EXCEPT ![g] = "select"]
            /\ scanL' = [scanL EXCEPT ![g] = 0]
            /\ item' = [item EXCEPT ![g] = 0]
            /\ lastEvent' = [type |-> "scanEnd"]
            /\ UNCHANGED <<slots, timer, panicked>>
       ELSE LET r == ScanItem(g, scanL[g], item[g])
            IN  /\ slots' = r.slots
                /\ timer' = r.timer
                /\ panicked' = ~r.ok
                /\ lastEvent' = r.ev @@ [turn |-> Turn]
                /\ IF r.ok /\ r.next = 0
                   THEN /\ currentPos' = NextPos(currentPos)
                        /\ pc' = [pc EXCEPT ![g] = "select"]
                        /\ scanL' = [scanL EXCEPT ![g] = 0]
                        /\ item' = [item EXCEPT ![g] = 0]
                   ELSE /\ item' = [item EXCEPT ![g] = r.next]
                        /\ UNCHANGED <<currentPos, pc, scanL>>
    /\ UNCHANGED <<load, interval, slotNum, ticker, calls, call, pending>>

\* case task := <-tw.addTaskChannel: tw.addTask(&task)
RecvAdd(g, c) ==
    /\ ~panicked
    /\ pc[g] = "select"
    /\ call[c].op = "add"
    /\ Taken(c)
    /\ LET r == addTask(call[c].task, slots, timer, currentPos, TRUE)
       IN  /\ slots' = r.slots
           /\ timer' = r.timer
           /\ panicked' = ~r.ok
           /\ lastEvent' = RecvInfo(g, c) @@
                           [type |-> "add", ok |-> r.ok, task |-> r.task,
                            pos |-> r.pos, cursor |-> currentPos]
    /\ UNCHANGED <<load, interval, slotNum, currentPos, ticker, pc, scanL, item>>

\* A faulty updateTask, which searches every slot without asking the registry.
updateTaskEverywhere(u) ==
    [p \in DOMAIN slots |->
        [i \in 1..Len(slots[p]) |->
            IF slots[p][i].key = u.key
            THEN [slots[p][i] EXCEPT !.interval = u.interval,
                                     !.taskData = u.taskData]
            ELSE slots[p][i]]]

\* updateTask: every task of the registered slot that has the key
updateTask(u) ==
    IF u.key \notin DOMAIN timer
    THEN slots
    ELSE LET position == timer[u.key]
         IN  [slots EXCEPT ![position] =
                [i \in 1..Len(@) |->
                    IF @[i].key = u.key
                    THEN [@[i] EXCEPT !.interval = u.interval,
                                      !.taskData = u.taskData]
                    ELSE @[i]]]

\* case update := <-tw.updateTaskChannel: tw.updateTask(update)
RecvUpdate(g, c) ==
    /\ ~panicked
    /\ pc[g] = "select"
    /\ call[c].op = "update"
    /\ Taken(c)
    /\ slots' = updateTask(call[c])
    /\ lastEvent' = RecvInfo(g, c) @@
                    [type |-> "update", key |-> call[c].key,
                     found |-> call[c].key \in DOMAIN timer]
    /\ UNCHANGED <<load, interval, slotNum, timer, currentPos, ticker, pc,
                   scanL, item, panicked>>

\* removeTask: l.Remove(e) clears e's links, so the e.Next() that follows is
\* nil and the loop ends at the first task that has the key.
removeTask(key) ==
    IF key \notin DOMAIN timer
    THEN [slots |-> slots, timer |-> timer]
    ELSE LET position == timer[key]
             i == FirstWithKey(slots[position], key)
         IN  IF i = 0
             THEN [slots |-> slots, timer |-> timer]
             ELSE [slots |-> [slots EXCEPT ![position] = RemoveAt(@, i)],
                   timer |-> Delete(timer, key)]

\* case key := <-tw.removeTaskChannel: tw.removeTask(key)
RecvRemove(g, c) ==
    /\ ~panicked
    /\ pc[g] = "select"
    /\ call[c].op = "remove"
    /\ Taken(c)
    /\ LET r == removeTask(call[c].key)
       IN  /\ slots' = r.slots
           /\ timer' = r.timer
    /\ lastEvent' = RecvInfo(g, c) @@
                    [type |-> "remove", key |-> call[c].key,
                     found |-> call[c].key \in DOMAIN timer]
    /\ UNCHANGED <<load, interval, slotNum, currentPos, ticker, pc, scanL,
                   item, panicked>>

\* case <-tw.stopChannel: tw.ticker.Stop(); return
RecvStop(g, c) ==
    /\ ~panicked
    /\ pc[g] = "select"
    /\ call[c].op = "stop"
    /\ Taken(c)
    /\ ticker' = "off"
    /\ pc' = [pc EXCEPT ![g] = "done"]
    /\ lastEvent' = RecvInfo(g, c) @@ [type |-> "stop"]
    /\ UNCHANGED <<load, interval, slotNum, wheel, scanL, item, panicked>>

-----------------------------------------------------------------------------
Next ==
    \/ \E a \in NewInputs : New(a.interval, a.slotNum)
    \/ \E c \in Callers : Start(c)
    \/ \E c \in Callers : Stop(c)
    \/ \E c \in Callers, a \in AddInputs :
            AddTask(c, a.d, a.times, a.key, a.data, a.job)
    \/ \E c \in Callers, u \in UpdateInputs : UpdateTask(c, u.key, u.d, u.data)
    \/ \E c \in Callers, key \in RemoveInputs : RemoveTask(c, key)
    \/ \E g \in Gs : RecvTick(g)
    \/ \E g \in Gs : ScanStep(g)
    \/ \E g \in Gs, c \in Callers : RecvAdd(g, c)
    \/ \E g \in Gs, c \in Callers : RecvUpdate(g, c)
    \/ \E g \in Gs, c \in Callers : RecvRemove(g, c)
    \/ \E g \in Gs, c \in Callers : RecvStop(g, c)

Spec == Init /\ [][Next]_vars

SpecDup == InitDup /\ [][Next]_vars

SpecStarts == InitStarts /\ [][Next]_vars

\* A goroutine inside scanAddRunTask's loop is not suspended for ever: it
\* goes on to the loop's next iteration.  (Workload "fair" starts one
\* coordinator goroutine.)
SpecFair ==
    /\ InitFair
    /\ [][Next]_vars
    /\ WF_vars(\E g \in Gs : ScanStep(g))

-----------------------------------------------------------------------------
(* Vocabulary of the properties *)

\* the places <<slot, index>> that hold a task
HeldTasks == UNION {{<<p, i>> : i \in 1..Len(slots[p])} : p \in DOMAIN slots}

TaskAt(h) == slots[h[1]][h[2]]

HeldWithKey(k) == {h \in HeldTasks : TaskAt(h).key = k}

\* the events in which the coordinator takes a command from a channel
RecvTypes == {"add", "update", "remove", "stop"}

-----------------------------------------------------------------------------
(* C1 *)

\* C1: registry and slots are consistent in every reachable state: a key is
\* in the registry iff exactly one task with that key is held in some slot,
\* the registry maps the key to that slot, and no slot holds a task whose key
\* is missing from the registry or mapped to another slot.
C1_RegistryConsistent ==
    \A k \in Keys :
        /\ k \in DOMAIN timer <=> HeldWithKey(k) # {}
        /\ Cardinality(HeldWithKey(k)) <= 1
        /\ \A h \in HeldWithKey(k) : timer[k] = h[1]

-----------------------------------------------------------------------------
(* C2 *)

\* C2 as stated: once a task added with n >= 1 runs has been dispatched n
\* times, it is held in no slot (and at no time is it dispatched more often).
C2_AbsentAfterLastRun ==
    \A h \in HeldTasks :
        TaskAt(h).runs0 >= 1 => TaskAt(h).fired < TaskAt(h).runs0

\* C2 as amended: a task added with n >= 1 runs has, while it is held,
\* fired + remaining runs = n (so it is dispatched at most n times, each
\* dispatch counting one run down); the n-th dispatch re-arms it with 0
\* remaining runs, and the scan that next visits it evicts it without a
\* dispatch, exactly n dispatches having happened.
C2_RunsAccounted ==
    /\ \A h \in HeldTasks :
        TaskAt(h).runs0 >= 1 =>
            /\ TaskAt(h).times >= 0
            /\ TaskAt(h).fired + TaskAt(h).times = TaskAt(h).runs0
    /\ (lastEvent.type = "dispatch" /\ lastEvent.task.runs0 >= 1) =>
            /\ lastEvent.task.fired < lastEvent.task.runs0
            /\ lastEvent.placed.fired = lastEvent.task.fired + 1
            /\ lastEvent.placed.times = lastEvent.task.times - 1
            /\ panicked \/ lastEvent.rearmed
    /\ (lastEvent.type = "evict" /\ lastEvent.task.runs0 >= 1) =>
            lastEvent.task.fired = lastEvent.task.runs0

\* The wheel evicts a task that was added with MaxRuns runs and has run them.
C2_Witness ==
    /\ lastEvent.type = "evict"
    /\ lastEvent.task.runs0 = MaxRuns
    /\ lastEvent.task.fired = MaxRuns

-----------------------------------------------------------------------------
(* C3 *)

\* C3: once the coordinator has processed RemoveTask(K), K is absent from
\* the registry and no task of key K that has not been dispatched yet is
\* left in any slot (so its callback is never dispatched).
C3_RemoveCancels ==
    lastEvent.type = "remove" =>
        /\ lastEvent.key \notin DOMAIN timer
        /\ \A h \in HeldWithKey(lastEvent.key) : TaskAt(h).fired > 0

-----------------------------------------------------------------------------
(* C4 *)

\* C4: an accepted AddTask with delay d on a wheel with interval I, N slots
\* and cursor c, once the coordinator has carried it out, has appended the
\* task to slot (c + steps) mod N with circle floor(steps / N), where
\* steps = floor(d / I), and the registry maps the key to that slot.
C4_PlacementFormula ==
    (lastEvent.type = "add" /\ lastEvent.ok) =>
        LET steps == lastEvent.task.d0 \div interval
            pos == (lastEvent.cursor + steps) % slotNum
        IN  /\ lastEvent.pos = pos
            /\ lastEvent.task.circle = steps \div slotNum
            /\ Len(slots[pos]) > 0
            /\ slots[pos][Len(slots[pos])] = lastEvent.task
            /\ lastEvent.task.key \in DOMAIN timer
            /\ timer[lastEvent.task.key] = pos

-----------------------------------------------------------------------------
(* C5 *)

\* the task was added with a delay of a whole number of rotations
WholeRotations(t) == t.fresh /\ t.d0 % (slotNum * interval) = 0

Rotations(t) == t.d0 \div (slotNum * interval)

\* C5: a task added with a delay of exactly k rotations is, once the
\* coordinator has carried the add out, in the cursor's slot, has circle 0
\* after exactly k passes of the cursor over the slot, and is not dispatched
\* before those k passes.
C5_WholeRotations ==
    /\ (lastEvent.type = "add" /\ lastEvent.ok /\ WholeRotations(lastEvent.task)) =>
            /\ lastEvent.pos = lastEvent.cursor
            /\ lastEvent.task.circle = Rotations(lastEvent.task)
    /\ \A h \in HeldTasks :
            WholeRotations(TaskAt(h)) =>
                TaskAt(h).circle + TaskAt(h).passes = Rotations(TaskAt(h))
    /\ (lastEvent.type = "dispatch" /\ WholeRotations(lastEvent.task)) =>
            lastEvent.task.passes = Rotations(lastEvent.task)

-----------------------------------------------------------------------------
(* C6 *)

\* C6: a run-forever task is never dropped by the wheel itself (between two
\* events, every held run-forever task has its key in the registry), and
\* once the coordinator has processed RemoveTask for its key no run-forever
\* task of that key is left to be dispatched.
C6_ForeverUntilRemoved ==
    /\ (\A g \in Gs : pc[g] # "scan") =>
            \A h \in HeldTasks :
                TaskAt(h).times = Forever => TaskAt(h).key \in DOMAIN timer
    /\ lastEvent.type = "remove" =>
            \A h \in HeldWithKey(lastEvent.key) : TaskAt(h).times # Forever

-----------------------------------------------------------------------------
(* C7 *)

\* C7: every add the coordinator takes, whatever other calls are waiting,
\* adds exactly one task of its key and no task of another key, records the
\* key in the registry at the slot of that task, leaves the other registry
\* entries alone and leaves every other caller's command waiting: no add is
\* lost and none is duplicated.
C7_AddsSerialized ==
    [][\A c \in Callers :
        (call[c].op = "add" /\ call'[c] = Idle /\ ~panicked') =>
            LET key == call[c].task.key
            IN  /\ \A k \in Keys :
                    Cardinality(HeldWithKey(k)') =
                        Cardinality(HeldWithKey(k)) + (IF k = key THEN 1 ELSE 0)
                /\ key \in DOMAIN timer'
                /\ slots'[timer'[key]][Len(slots'[timer'[key]])].key = key
                /\ \A k \in (DOMAIN timer) \ {key} :
                    k \in DOMAIN timer' /\ timer'[k] = timer[k]
                /\ \A x \in Callers \ {c} : call'[x] = call[x]]_vars

\* Two callers were waiting with adds of distinct keys, one add has been
\* applied and is registered once, the other is still waiting.
C7_Witness ==
    /\ lastEvent.type = "add"
    /\ lastEvent.ok
    /\ Cardinality(HeldWithKey(lastEvent.task.key)) = 1
    /\ \E x \in Callers :
        /\ call[x].op = "add"
        /\ call[x].task.key # lastEvent.task.key

-----------------------------------------------------------------------------
(* C8 *)

\* C8 as stated: the coordinator always takes the command whose call was
\* issued first, whichever channel it waits on.
C8_StrictFifo == lastEvent.type \in RecvTypes => lastEvent.fifo

\* C8 as amended: a caller has at most one command waiting (its call returns
\* only when the coordinator has taken the command), so the coordinator
\* applies the commands of one caller in the order that caller issued them;
\* commands of different callers that wait together are taken in any order.
C8_PerCallerOrder ==
    \A c \in Callers :
        Cardinality({i \in DOMAIN pending : pending[i] = c}) =
            IF call[c] = Idle THEN 0 ELSE 1

\* The coordinator has taken a command while an older one was waiting.
C8_Witness == lastEvent.type \in RecvTypes /\ ~lastEvent.fifo

-----------------------------------------------------------------------------
(* C9 *)

\* C9: at most one goroutine is inside a handler at a time: no two scans are
\* in progress together and no command is applied while a scan is in
\* progress.
C9_SingleWriter ==
    /\ Cardinality({g \in Gs : pc[g] = "scan"}) <= 1
    /\ lastEvent.type \in {"add", "update", "remove"} =>
            \A g \in Gs : pc[g] # "scan"

-----------------------------------------------------------------------------
(* C10 *)

\* the events in which the coordinator handles a tick or a command
HandlingTypes == {"tick", "evict", "wait", "dispatch", "add", "update", "remove"}

\* C10: once a coordinator loop has accepted Stop, the wheel is Stopped for
\* good: its ticker does not run again, Stop is accepted only once, and no
\* tick or command is handled.
C10_StoppedIsTerminal ==
    (\E g \in Gs : pc[g] = "done") =>
        /\ ticker = "off"
        /\ Cardinality({g \in Gs : pc[g] = "done"}) = 1
        /\ lastEvent.type \notin HandlingTypes

-----------------------------------------------------------------------------
(* C11 *)

\* C11: an AddTask call whose interval is <= 0, whose key is nil or whose
\* callback is nil changes neither the wheel (slots, registry, cursor) nor
\* any caller's waiting command and leaves its caller free, whatever the
\* coordinator is doing; every other AddTask call, whatever its run count,
\* leaves its caller blocked with exactly that task as the command waiting
\* for the coordinator.
C11_InvalidAddRejected ==
    [][\A c \in Callers, a \in AddInputs :
        AddTask(c, a.d, a.times, a.key, a.data, a.job) =>
            /\ wheel' = wheel
            /\ pc' = pc
            /\ IF a.d <= 0 \/ a.key = Nil \/ a.job = Nil
               THEN /\ call' = call
                    /\ pending' = pending
               ELSE /\ call'[c].op = "add"
                    /\ call'[c].task.interval = a.d
                    /\ call'[c].task.times = a.times
                    /\ call'[c].task.key = a.key
                    /\ pending' = Append(pending, c)
                    /\ \A x \in Callers \ {c} : call'[x] = call[x]]_vars

\* An AddTask call has been rejected after the coordinator loop had ended,
\* while another caller was blocked in a call.
C11_Witness ==
    /\ lastEvent.type = "reject"
    /\ lastEvent.op = "add"
    /\ \E g \in Gs : pc[g] = "done"
    /\ \E c \in Callers : call[c] # Idle

-----------------------------------------------------------------------------
(* C12 *)

\* C12: when the coordinator takes an UpdateTask whose key is not in the
\* registry, the slots (every field of every task), the registry and the
\* cursor are the same after the step as before it.
C12_UpdateAbsentNoOp ==
    [][\A c \in Callers :
        (call[c].op = "update" /\ call'[c] = Idle
            /\ call[c].key \notin DOMAIN timer) => wheel' = wheel]_vars

\* The coordinator has processed an UpdateTask whose key was not in the
\* registry while a task of that key was held in a slot.
C12_Witness ==
    /\ lastEvent.type = "update"
    /\ ~lastEvent.found
    /\ HeldWithKey(lastEvent.key) # {}

-----------------------------------------------------------------------------
(* C13 *)

\* C13: New(interval, slotNum) yields no wheel when interval <= 0 or
\* slotNum <= 0, and for every other argument list yields a wheel with the
\* cursor at 0, exactly slotNum slots, all of them empty, and an empty
\* registry.
C13_NewValidates ==
    [][\A a \in NewInputs :
        New(a.interval, a.slotNum) =>
            IF a.interval <= 0 \/ a.slotNum <= 0
            THEN /\ ~Built'
                 /\ ~lastEvent'.ok
                 /\ NoWheel'
            ELSE /\ Built'
                 /\ lastEvent'.ok
                 /\ interval' = a.interval
                 /\ slotNum' = a.slotNum
                 /\ currentPos' = 0
                 /\ DOMAIN slots' = 0..(a.slotNum - 1)
                 /\ \A p \in DOMAIN slots' : slots'[p] = <<>>
                 /\ timer' = <<>>]_vars

\* New has been called with an argument that is not positive.
C13_Witness == lastEvent.type = "new" /\ ~lastEvent.ok /\ ~Built

-----------------------------------------------------------------------------
(* C14 *)

\* C14 as stated: a call that was issued while no coordinator loop was
\* running (before Start, or after Stop was accepted) never returns.
C14_NeverReturnsWithoutLoop ==
    [][\A c \in Callers :
        (call[c] # Idle /\ call[c].norun) => call'[c] # Idle]_vars

\* C14 as amended: a call that passes validation leaves its caller blocked
\* with that one command waiting; the call returns only in a step in which a
\* coordinator goroutine that is in its select takes that command; hence
\* while no coordinator loop is running a blocked call stays blocked.
C14_SyncHandoff ==
    [][/\ (calls' = calls + 1 /\ lastEvent'.type = "send") =>
            \E c \in Callers :
                /\ call[c] = Idle
                /\ call'[c] # Idle
                /\ call'[c].op = lastEvent'.op
                /\ pending' = Append(pending, c)
       /\ \A c \in Callers :
            (call[c] # Idle /\ call'[c] = Idle) =>
                /\ \E g \in Gs : pc[g] = "select"
                /\ lastEvent'.type = call[c].op
       /\ \A c \in Callers :
            (call[c] # Idle /\ Running = {}) => call'[c] = call[c]]_vars

\* Stop has been accepted, no coordinator loop is running, and a caller is
\* blocked in a call it issued while none was running.
C14_Witness ==
    /\ \E g \in Gs : pc[g] = "done"
    /\ Running = {}
    /\ \E c \in Callers : call[c] # Idle /\ call[c].norun

-----------------------------------------------------------------------------
(* C15 *)

\* the events of scanAddRunTask's loop
ScanTypes == {"evict", "wait", "dispatch"}

\* C15: a tick starts the scan on the list of the slot the cursor is on;
\* every evict, wait (circle decrement) and dispatch happens in a scan, on
\* the scan's current element of that list; a task is dispatched only with
\* circle 0 and remaining runs other than 0; a task with remaining runs other
\* than 0 and circle > 0 has its circle lowered by exactly one and stays in
\* place, nothing else changing; a task with remaining runs 0 is removed
\* from its slot and its key from the registry, and it is not dispatched.
C15_DispatchDiscipline ==
    [][/\ \A g \in Gs :
            (lastEvent'.type = "tick" /\ pc[g] = "select" /\ pc'[g] = "scan") =>
                /\ scanL'[g] = currentPos
                /\ item'[g] = 1
                /\ currentPos' = currentPos
       /\ lastEvent'.type \in ScanTypes =>
            LET e == lastEvent'
            IN  \E g \in Gs :
                  /\ pc[g] = "scan"
                  /\ scanL[g] = e.slot
                  /\ item[g] \in 1..Len(slots[e.slot])
                  /\ slots[e.slot][item[g]] = e.task
                  /\ e.type = "dispatch" <=>
                        (e.task.times # 0 /\ e.task.circle = 0)
                  /\ e.type = "wait" <=>
                        (e.task.times # 0 /\ e.task.circle > 0)
                  /\ e.type = "evict" <=> e.task.times = 0
                  /\ e.type = "wait" =>
                        /\ slots'[e.slot][item[g]].circle = e.task.circle - 1
                        /\ slots' = [slots EXCEPT
                                ![e.slot][item[g]] = slots'[e.slot][item[g]]]
                        /\ \A f \in {"interval", "times", "key", "job", "taskData"} :
                                slots'[e.slot][item[g]][f] = e.task[f]
                        /\ timer' = timer
                  /\ e.type = "evict" =>
                        /\ slots' = [slots EXCEPT ![e.slot] = RemoveAt(@, item[g])]
                        /\ e.task.key \notin DOMAIN timer'
                        /\ \A k \in (DOMAIN timer) \ {e.task.key} :
                                k \in DOMAIN timer' /\ timer'[k] = timer[k]]_vars

-----------------------------------------------------------------------------
(* C16 *)

\* C16: when the coordinator takes an UpdateTask whose key is in the
\* registry, exactly one task changes, a task of that key in the registered
\* slot, and only in its interval and payload (so its slot, circle and
\* remaining runs, on which its next dispatch depends, are kept); the other
\* tasks, the registry and the cursor are unchanged.
C16_UpdateInPlace ==
    [][\A c \in Callers :
        (call[c].op = "update" /\ call'[c] = Idle
            /\ call[c].key \in DOMAIN timer) =>
            LET u == call[c]
                p == timer[u.key]
            IN  /\ timer' = timer
                /\ currentPos' = currentPos
                /\ \E i \in 1..Len(slots[p]) :
                    /\ slots[p][i].key = u.key
                    /\ slots' = [slots EXCEPT
                                    ![p][i].interval = u.interval,
                                    ![p][i].taskData = u.taskData]]_vars

-----------------------------------------------------------------------------
(* C17 *)

\* C17: a task that was re-armed with a delay of s >= 1 slot-steps,
\* s = floor(delay / wheel interval), is dispatched again exactly s ticks
\* after the tick that re-armed it.
C17_PeriodIsSteps ==
    (lastEvent.type = "dispatch" /\ ~lastEvent.task.fresh
        /\ lastEvent.task.d0 \div interval >= 1) =>
            lastEvent.task.age = lastEvent.task.d0 \div interval

-----------------------------------------------------------------------------
(* C18 *)

\* C18: every scan that a tick starts ends: the goroutine comes back to its
\* select (the cursor advancing as the scan ends).
C18_TickTerminates ==
    \A g \in Gs : (pc[g] = "scan") ~> (pc[g] = "select")

-----------------------------------------------------------------------------
(* C19 *)

\* C19: a task that a scan has re-armed is not visited again by the scan of
\* the same tick: when a re-armed task is dispatched or has its circle
\* lowered, a later tick has begun since it was re-armed.
C19_VisitedOncePerTick ==
    (lastEvent.type \in {"dispatch", "wait"} /\ ~lastEvent.task.fresh) =>
        lastEvent.task.age >= 1

-----------------------------------------------------------------------------
(* C20 *)

\* C20: no placement faults (the process never dies of a division by zero
\* or of an index out of range), and every task held in a slot has an
\* interval above 0 and a circle of 0 or more.
C20_PlacementInRange ==
    /\ ~panicked
    /\ \A h \in HeldTasks :
            TaskAt(h).interval > 0 /\ TaskAt(h).circle >= 0

====
